---- MODULE Spec2Model ----
(***************************************************************************)
(* Real-time duplex chat transport with streaming audio playback.          *)
(*                                                                         *)
(*   useChatWebSocket   frontend/hooks/use-chat-websocket.ts               *)
(*   PCMAudioPlayer     frontend/lib/constants.ts (lines 72-296)           *)
(*                                                                         *)
(* The hook is a set of callbacks run to completion on one event loop.     *)
(* Every action below is one such callback (a user action, a socket event, *)
(* a timer, the continuation of an await, a flush of React effects).       *)
(* Handlers are written as functions from the world record to the world    *)
(* record so that the calls a handler makes (cleanup(), connect(),         *)
(* player.stop(), ...) compose in the order of the source.                 *)
(*                                                                         *)
(* Times are in milliseconds.                                              *)
(***************************************************************************)
EXTENDS Integers, Sequences, FiniteSets, TLC

VARIABLES
    \* component lifecycle and props
    mounted,               \* the component using the hook is mounted
    conversationId,        \* prop
    voiceEnabled,          \* prop
    deps,                  \* dependency values the effects last ran with
    \* useState
    isConnected, isConnecting, isPlaying,
    \* useRef
    wsRef, playerRef, reconnectAttemptRef, reconnectTimeoutRef,
    heartbeatIntervalRef, heartbeatTimeoutRef, voiceEnabledRef,
    \* the browser: sockets, timers no ref points to, pending getToken()
    sockets, leakedTimers, tokenFetches,
    \* the PCMAudioPlayer object, its cancelled sources, the output clock
    player, cancelledSources, clock,
    \* history: the last handler that ran and what it did, the reconnect
    \* timers fired and the abnormal closures seen, the messages sent
    last, hist,
    \* the chat page: the history snapshot and the live messages
    page

vars == <<mounted, conversationId, voiceEnabled, deps,
          isConnected, isConnecting, isPlaying,
          wsRef, playerRef, reconnectAttemptRef, reconnectTimeoutRef,
          heartbeatIntervalRef, heartbeatTimeoutRef, voiceEnabledRef,
          sockets, leakedTimers, tokenFetches,
          player, cancelledSources, clock,
          last, hist, page>>

-----------------------------------------------------------------------------
(* Bounds of the model *)

NConv == 2
MaxSockets == 2
MaxFetch == 2
MaxAttempt == 1
MaxBackoff == 7
AbnormalCap == 2
MaxLeaked == 1
MaxChunks == 2
MaxTurns == 1
MaxVoiceTurns == 2
MaxTimeline == 3
MaxCancelled == 2
MaxClock == 50
NMsgIds == 3
NTimes == 3
MaxSnapshot == 2
MaxLive == 2
MaxLoads == 1
MaxReceived == 3
LastArrival == 30
MaxSends == 2

Convs == 1..NConv
SockIds == 1..MaxSockets

(* Program constants *)

RECONNECT_DELAYS == <<1000, 2000, 4000, 8000, 16000, 30000>>
SAFETY_MARGIN == 10
CLOSE_NORMAL == 1000
CLOSE_AUTH == 4001
CLOSE_FORBIDDEN == 4003
CLOSE_NOT_FOUND == 4004

\* Codes the hook treats as final (no reconnect).
NoRetryCodes == {CLOSE_NORMAL, CLOSE_AUTH, CLOSE_FORBIDDEN, CLOSE_NOT_FOUND}
\* The close event of a connection that was lost or never established
\* carries 1006 (RFC 6455, 7.4.1).
LostCloseCodes == {1006}
\* A close the server or the network started.
RemoteCloseCodes == NoRetryCodes \cup LostCloseCodes
\* A close the client started with ws.close() (no code given): the close
\* event carries 1005, or 1006 when the closing handshake does not complete.
LocalCloseCodes == {1005} \cup LostCloseCodes

Min(a, b) == IF a <= b THEN a ELSE b
Max(a, b) == IF a >= b THEN a ELSE b

-----------------------------------------------------------------------------
(* The world record: everything a handler can read or write. *)

\* What a callback closes over: the render's conversationId and isPlaying
\* (connect's dependency list, line 253).  conv = 0 stands for "no closure".
Closures == [conv : Convs, playing : BOOLEAN]
NoClosure == [conv |-> 0, playing |-> FALSE]
EmptyBag == [c \in Closures |-> 0]

NoSocket == [readyState |-> "NONE", closure |-> NoClosure, pinged |-> FALSE,
             phase |-> "idle", chunksLeft |-> 0]

\* awaiting counts the processQueue invocations suspended at their await
\* of init() and at their await of playChunk().
NoPlayer == [audioContext |-> FALSE, scheduledSources |-> <<>>, nextPlayTime |-> 0,
             state |-> "idle", pendingChunks |-> <<>>, isProcessing |-> FALSE,
             awaiting |-> [init |-> 0, play |-> 0]]

\* History kept across handlers:
\*   fired     reconnect timers fired since the last onopen, reconnect() or
\*             run of the conversationId effect
\*   abnormal  closures that scheduled a reconnect since the last onopen
\*   turns     'message' frames sent
\*   timeline  the buffers scheduled since the last stop()
\*   stopped   stop() was called and neither reset() nor a new utterance
\*             (an assistant_message) followed
\*   undecoded some chunk decoded to no samples
\*   received  chunks received
\*   order     the numbers (seq) of the chunks of the timeline
\*   reported  the state the player passed to onStateChange last ("none"
\*             for a player that has not called it)
NoHist == [fired |-> 0, abnormal |-> 0, turns |-> 0, timeline |-> <<>>, stopped |-> FALSE,
           undecoded |-> FALSE, received |-> 0, order |-> <<>>, reported |-> "none"]

\* The record of the last handler: its name, the socket of the event, the
\* conversation that socket was opened for and its close code, the frames
\* sent, the callbacks invoked (getToken included), the reconnect delay
\* scheduled (0: none) with the number of abnormal closures before it, and
\* the sources scheduled and the chunk queued; sentWhile is the player's
\* state at the moment each frame was sent.
NoOp == [op |-> "init", sock |-> 0, conv |-> 0, code |-> 0, sent |-> <<>>, calls |-> <<>>,
         delay |-> 0, nth |-> 0, scheduled |-> <<>>, chunk |-> [valid |-> TRUE, bytes |-> 0, seq |-> 0],
         sentWhile |-> <<>>]

\* The chat page's state: initialMessages (the messages of the history
\* snapshot), localMessages (the messages the socket delivered), and as
\* history the identifiers in the order they first arrived and the number
\* of snapshots loaded.  For useConversation: the turns the server has
\* stored, the number of refreshes started, the refreshes in flight (each
\* with its number and, once the server has answered, the history it got)
\* and the messages the refresh started last has fetched.
NoPage == [initialMessages |-> <<>>, localMessages |-> <<>>, arrival |-> <<>>, loads |-> 0,
           server |-> 0, started |-> 0, refreshes |-> {}, latest |-> <<>>]

Cur == [isConnected |-> isConnected, isConnecting |-> isConnecting, isPlaying |-> isPlaying,
        wsRef |-> wsRef, playerRef |-> playerRef,
        reconnectAttemptRef |-> reconnectAttemptRef,
        reconnectTimeoutRef |-> reconnectTimeoutRef,
        heartbeatIntervalRef |-> heartbeatIntervalRef,
        heartbeatTimeoutRef |-> heartbeatTimeoutRef,
        voiceEnabledRef |-> voiceEnabledRef,
        sockets |-> sockets, leakedTimers |-> leakedTimers, tokenFetches |-> tokenFetches,
        player |-> player, cancelledSources |-> cancelledSources, clock |-> clock,
        last |-> NoOp, hist |-> hist, page |-> page]

\* A closed socket nothing refers to is garbage: its slot is free again.
Collect(w) ==
    [w EXCEPT !.sockets = [s \in SockIds |->
        IF w.sockets[s].readyState = "CLOSED" /\ w.wsRef # s THEN NoSocket ELSE w.sockets[s]]]

Set(w0) ==
    LET w == Collect(w0) IN
    /\ isConnected' = w.isConnected
    /\ isConnecting' = w.isConnecting
    /\ isPlaying' = w.isPlaying
    /\ wsRef' = w.wsRef
    /\ playerRef' = w.playerRef
    /\ reconnectAttemptRef' = w.reconnectAttemptRef
    /\ reconnectTimeoutRef' = w.reconnectTimeoutRef
    /\ heartbeatIntervalRef' = w.heartbeatIntervalRef
    /\ heartbeatTimeoutRef' = w.heartbeatTimeoutRef
    /\ voiceEnabledRef' = w.voiceEnabledRef
    /\ sockets' = w.sockets
    /\ leakedTimers' = w.leakedTimers
    /\ tokenFetches' = w.tokenFetches
    /\ player' = w.player
    /\ cancelledSources' = w.cancelledSources
    /\ clock' = w.clock
    /\ last' = w.last
    /\ hist' = w.hist
    /\ page' = w.page

BagSize(b) == LET RECURSIVE Sum(_)
                  Sum(S) == IF S = {} THEN 0
                            ELSE LET c == CHOOSE x \in S : TRUE IN b[c] + Sum(S \ {c})
              IN Sum(DOMAIN b)

IsOpen(w) == w.wsRef # 0 /\ w.sockets[w.wsRef].readyState = "OPEN"

\* WebSocket.close(): starts the closing handshake of a socket that is
\* connecting or open; nothing on a socket that is closing or closed.
SocketClose(w, s) ==
    IF w.sockets[s].readyState \in {"CONNECTING", "OPEN"}
    THEN [w EXCEPT !.sockets[s].readyState = "CLOSING"]
    ELSE w

\* WebSocket.send() on an open socket; the frame is recorded in last.sent.
SocketSend(w, s, frame) ==
    [w EXCEPT !.last.sent = Append(@, <<frame, s>>),
              !.last.sentWhile = Append(@, w.player.state),
              !.sockets[s].pinged = IF frame = "ping" THEN TRUE ELSE @,
              !.sockets[s].phase = IF frame = "message" THEN "user" ELSE @,
              !.sockets[s].chunksLeft = IF frame = "message" THEN 0 ELSE @,
              !.hist.turns = IF frame = "message" THEN @ + 1 ELSE @]

-----------------------------------------------------------------------------
(* PCMAudioPlayer (frontend/lib/constants.ts) *)

\* callbacks.onStateChange as the hook passes it (use-chat-websocket.ts
\* lines 180-182): setIsPlaying(state === 'playing').
OnStateChange(w, st) ==
    [w EXCEPT !.isPlaying = (st = "playing"),
              !.hist.reported = st,
              !.last.calls = Append(@, <<"onStateChange", st>>)]

\* init(): creates the AudioContext when there is none.
PlayerInit(w) == [w EXCEPT !.player.audioContext = TRUE]

\* A start time that ignores the playback cursor.
StartTimeFromNow(now, nextPlayTime) == now + SAFETY_MARGIN

\* The start time scheduleBuffer computes (lines 214-217).
StartTime(now, nextPlayTime) == Max(now + SAFETY_MARGIN, nextPlayTime)

\* scheduleBuffer(buffer): buffer.duration is dur.
ScheduleBuffer(w, dur) ==
    IF ~w.player.audioContext \/ w.player.state = "stopped" THEN w
    ELSE LET startTime == StartTime(w.clock, w.player.nextPlayTime)
             source == [start |-> startTime, duration |-> dur]
         IN [w EXCEPT !.player.nextPlayTime = startTime + dur,
                      !.player.scheduledSources = Append(@, source),
                      !.last.scheduled = Append(@, source),
                      !.hist.timeline = Append(@, [now |-> w.clock,
                                                   start |-> startTime,
                                                   end |-> startTime + dur])]

\* A chunk is the string the server sent: whether atob accepts it
\* (valid) and the number of bytes it decodes to; seq numbers the chunks
\* in the order they were received, where that order is followed.
\* A decoder that halves the byte count without looking at its parity.
base64ToPCMTruncating(chunk) ==
    IF ~chunk.valid THEN 0 ELSE chunk.bytes \div 2

\* base64ToPCM(base64), lines 168-180: the number of 16-bit samples. atob
\* throws on a string that is not base64 and new Int16Array(buffer) throws
\* on an odd byte length; both are caught and give an empty array.
base64ToPCM(chunk) ==
    IF ~chunk.valid THEN 0
    ELSE IF chunk.bytes % 2 # 0 THEN 0
    ELSE chunk.bytes \div 2

SAMPLE_RATE == 24000

\* pcmToAudioBuffer(pcm), lines 186-200: the duration in ms of the buffer
\* of pcmLength samples at SAMPLE_RATE.
pcmToAudioBuffer(pcmLength) == (pcmLength * 1000) \div SAMPLE_RATE

\* The well-formed chunk whose buffer lasts dur ms.
Encoded(dur) == [valid |-> TRUE, bytes |-> 2 * ((dur * SAMPLE_RATE) \div 1000), seq |-> 0]

\* playChunk(pcmBase64), lines 145-163.
PlayChunk(w, chunk) ==
    IF ~w.player.audioContext \/ w.player.state = "stopped" THEN w
    ELSE LET pcmData == base64ToPCM(chunk)
         IN IF pcmData = 0 THEN [w EXCEPT !.hist.undecoded = TRUE]
            ELSE LET w0 == ScheduleBuffer(w, pcmToAudioBuffer(pcmData))
                     w1 == [w0 EXCEPT !.hist.order = Append(@, chunk.seq)]
                 IN IF w1.player.state # "playing"
                    THEN OnStateChange([w1 EXCEPT !.player.state = "playing"], "playing")
                    ELSE w1

\* processQueue(): with an AudioContext present its awaits are awaits of
\* playChunk, which has no await inside: the loop runs to its end in
\* microtasks before any other event is handled.
RECURSIVE DrainQueue(_)
DrainQueue(w) ==
    IF w.player.pendingChunks = <<>> THEN w
    ELSE LET chunk == Head(w.player.pendingChunks)
             w1 == [w EXCEPT !.player.pendingChunks = Tail(@)]
         IN DrainQueue(PlayChunk(w1, chunk))

ProcessQueue(w) ==
    IF w.player.isProcessing \/ w.player.pendingChunks = <<>> THEN w
    ELSE LET w1 == IF ~w.player.audioContext THEN PlayerInit(w) ELSE w
             w2 == DrainQueue([w1 EXCEPT !.player.isProcessing = TRUE])
         IN [w2 EXCEPT !.player.isProcessing = FALSE]

\* The same, one await at a time.
\* A pass of the while loop that takes the newest pending chunk.
LoopStepNewestFirst(w) ==
    IF w.player.pendingChunks = <<>> THEN [w EXCEPT !.player.isProcessing = FALSE]
    ELSE LET n == Len(w.player.pendingChunks)
             chunk == w.player.pendingChunks[n]
             w1 == [w EXCEPT !.player.pendingChunks = SubSeq(@, 1, n - 1)]
         IN [PlayChunk(w1, chunk) EXCEPT !.player.awaiting.play = @ + 1]

\* A pass of processQueue's while loop, lines 132-142: the loop ends, or
\* it shifts a chunk and calls playChunk, which runs to its end (it has no
\* await inside), and the invocation is suspended at its await.
LoopStep(w) ==
    IF w.player.pendingChunks = <<>> THEN [w EXCEPT !.player.isProcessing = FALSE]
    ELSE LET chunk == Head(w.player.pendingChunks)
             w1 == [w EXCEPT !.player.pendingChunks = Tail(@)]
         IN [PlayChunk(w1, chunk) EXCEPT !.player.awaiting.play = @ + 1]

\* processQueue() up to its first await, lines 124-136: without an
\* AudioContext init() creates one and the invocation is suspended.
processQueueStart(w) ==
    IF w.player.isProcessing \/ w.player.pendingChunks = <<>> THEN w
    ELSE IF ~w.player.audioContext
         THEN [PlayerInit(w) EXCEPT !.player.awaiting.init = @ + 1]
         ELSE LoopStep([w EXCEPT !.player.isProcessing = TRUE])

\* processQueue() resumed after init(), lines 129-132.
processQueueAfterInit(w) ==
    LoopStep([w EXCEPT !.player.awaiting.init = @ - 1, !.player.isProcessing = TRUE])

\* processQueue() resumed after playChunk(), lines 132-142.
processQueueAfterPlayChunk(w) ==
    LoopStep([w EXCEPT !.player.awaiting.play = @ - 1])

\* queueChunk(pcmBase64) up to the first await of its processQueue().
queueChunkStart(w, chunk) ==
    processQueueStart([w EXCEPT !.player.pendingChunks = Append(@, chunk),
                                !.last.chunk = chunk,
                                !.hist.received = @ + 1])

\* queueChunk(pcmBase64)
QueueChunk(w, chunk) ==
    ProcessQueue([w EXCEPT !.player.pendingChunks = Append(@, chunk),
                           !.last.chunk = chunk])

\* stop(): every source in scheduledSources is stopped; the browser will
\* still deliver the 'ended' event of each of them (source.onended stays
\* set), which cancelledSources counts.
PlayerStop(w) ==
    OnStateChange(
        [w EXCEPT !.player.state = "stopped",
                  !.player.pendingChunks = <<>>,
                  !.cancelledSources = @ + Len(w.player.scheduledSources),
                  !.player.scheduledSources = <<>>,
                  !.player.nextPlayTime = 0,
                  !.hist.timeline = <<>>,
                  !.hist.order = <<>>,
                  !.hist.stopped = TRUE],
        "stopped")

\* reset()
PlayerReset(w) == [PlayerStop(w) EXCEPT !.player.state = "idle", !.hist.stopped = FALSE]

\* dispose(): stop(), then the AudioContext is closed, after which it
\* delivers no further events.
PlayerDispose(w) ==
    [PlayerStop(w) EXCEPT !.player.audioContext = FALSE, !.cancelledSources = 0]

\* The tail of source.onended (lines 232-236).
\* An onended that looks at the queue only.
CheckFinishedWhenQueueEmpty(w) ==
    IF w.player.pendingChunks = <<>>
    THEN OnStateChange([w EXCEPT !.player.state = "idle"], "idle")
    ELSE w

\* source.onended, lines 232-236.
CheckFinished(w) ==
    IF w.player.scheduledSources = <<>> /\ w.player.pendingChunks = <<>>
    THEN OnStateChange([w EXCEPT !.player.state = "idle"], "idle")
    ELSE w

\* source.onended of the i-th scheduled source, which played to its end.
SourceEnded(w, i) ==
    CheckFinished([w EXCEPT !.player.scheduledSources =
        SubSeq(@, 1, i - 1) \o SubSeq(@, i + 1, Len(@))])

\* source.onended of a source stop() had removed from scheduledSources:
\* indexOf gives -1, nothing is spliced.
CancelledSourceEnded(w) ==
    CheckFinished([w EXCEPT !.cancelledSources = @ - 1])

-----------------------------------------------------------------------------
(* useChatWebSocket (frontend/hooks/use-chat-websocket.ts) *)

\* A callback of the caller (onUserMessage, onAssistantMessage, onError).
Callback(w, name, arg) == [w EXCEPT !.last.calls = Append(@, <<name, arg>>)]

\* cleanup(), lines 67-99.
cleanup(w) ==
    LET w1 == [w EXCEPT !.reconnectTimeoutRef = NoClosure,
                        !.heartbeatIntervalRef = FALSE,
                        !.heartbeatTimeoutRef = FALSE]
        w2 == IF w1.wsRef # 0
              THEN [SocketClose(w1, w1.wsRef) EXCEPT !.wsRef = 0]
              ELSE w1
        w3 == IF w2.playerRef
              THEN [PlayerDispose(w2) EXCEPT !.playerRef = FALSE, !.player = NoPlayer,
                                            !.hist.reported = "none",
                                            !.hist.stopped = FALSE]
              ELSE w2
    IN [w3 EXCEPT !.isConnected = FALSE, !.isConnecting = FALSE, !.isPlaying = FALSE]

\* startHeartbeat(), lines 101-118: one interval, re-armed.
startHeartbeat(w) == [w EXCEPT !.heartbeatIntervalRef = TRUE]

\* connect() up to its await of getToken(), lines 120-129; cl is what this
\* version of connect closes over.
connect(w, cl) ==
    IF IsOpen(w) THEN w
    ELSE [cleanup(w) EXCEPT !.isConnecting = TRUE,
                            !.tokenFetches[cl] = @ + 1,
                            !.last.calls = Append(@, <<"getToken", cl.conv>>)]

\* A connect() that opens its socket and leaves its token to be used again.
connectResumeKeepingToken(w, cl, s) ==
    [w EXCEPT !.sockets[s] = [NoSocket EXCEPT !.readyState = "CONNECTING", !.closure = cl],
              !.wsRef = s]

\* connect() after getToken() gave a token, lines 134-142: a new socket in
\* slot s, with the handlers of this connect().
connectResume(w, cl, s) ==
    [w EXCEPT !.sockets[s] = [NoSocket EXCEPT !.readyState = "CONNECTING", !.closure = cl],
              !.wsRef = s,
              !.tokenFetches[cl] = @ - 1]

\* connect() after getToken() threw or gave null, lines 130-132, 248-252.
connectFail(w, cl) ==
    Callback([w EXCEPT !.isConnecting = FALSE, !.tokenFetches[cl] = @ - 1],
             "onError", "Not authenticated")

\* An onopen that leaves the attempt counter as it is.
onopenKeepsAttempt(w) ==
    startHeartbeat([w EXCEPT !.isConnecting = FALSE,
                             !.isConnected = TRUE,
                             !.hist.fired = 0,
                             !.hist.abnormal = 0])

\* ws.onopen, lines 144-151.
onopen(w) ==
    startHeartbeat([w EXCEPT !.isConnecting = FALSE,
                             !.isConnected = TRUE,
                             !.reconnectAttemptRef = 0,
                             !.hist.fired = 0,
                             !.hist.abnormal = 0])

\* The delay ws.onclose looks up, lines 236-239.
ReconnectDelay(attempt) ==
    RECONNECT_DELAYS[Min(attempt, Len(RECONNECT_DELAYS) - 1) + 1]

\* setTimeout(..., delay) assigned to reconnectTimeoutRef, lines 242-245: a
\* timer the ref pointed to and that is still pending stays pending.
ScheduleReconnect(w, cl) ==
    [w EXCEPT !.leakedTimers = IF w.reconnectTimeoutRef # NoClosure
                               THEN [@ EXCEPT ![w.reconnectTimeoutRef] = @ + 1]
                               ELSE @,
              !.reconnectTimeoutRef = cl]

\* Whether ws.onclose schedules a reconnect, line 235.
ShouldReconnect(code) == code \notin NoRetryCodes

\* ws.onclose of a socket created with closure cl, lines 222-247.
onclose(w, cl, code) ==
    LET w1 == [w EXCEPT !.isConnected = FALSE,
                        !.isConnecting = FALSE,
                        !.heartbeatIntervalRef = FALSE]
    IN IF ShouldReconnect(code)
       THEN [ScheduleReconnect(w1, cl) EXCEPT
                !.last.delay = ReconnectDelay(w.reconnectAttemptRef),
                !.last.nth = w.hist.abnormal,
                !.hist.abnormal = Min(@ + 1, AbnormalCap)]
       ELSE w1

\* The reconnect timer's callback, lines 242-245.
reconnectTimer(w, cl) ==
    connect([w EXCEPT !.reconnectAttemptRef = @ + 1, !.hist.fired = @ + 1], cl)

\* The heartbeat interval's callback, lines 107-117.
heartbeatTick(w) ==
    IF IsOpen(w)
    THEN [SocketSend(w, w.wsRef, "ping") EXCEPT !.heartbeatTimeoutRef = TRUE]
    ELSE w

\* The heartbeat timeout's callback, lines 112-115.
heartbeatTimeout(w) ==
    LET w1 == [w EXCEPT !.heartbeatTimeoutRef = FALSE]
    IN IF w1.wsRef # 0 THEN SocketClose(w1, w1.wsRef) ELSE w1

\* ws.onmessage, case 'pong', lines 162-168.
onPong(w) == [w EXCEPT !.heartbeatTimeoutRef = FALSE]

\* case 'user_message', lines 170-172.
onUserMessageEvent(w, cl) == Callback(w, "onUserMessage", cl.conv)

\* case 'assistant_message', lines 174-189.
onAssistantMessageEvent(w, cl) ==
    LET w1 == Callback([w EXCEPT !.hist.stopped = FALSE], "onAssistantMessage", cl.conv)
    IN IF w1.voiceEnabledRef /\ ~w1.playerRef
       THEN PlayerInit([w1 EXCEPT !.playerRef = TRUE, !.player = NoPlayer,
                                  !.hist.reported = "none"])
       ELSE w1

\* case 'audio_chunk', lines 191-203; isPlaying is the closure's.
onAudioChunkEvent(w, cl, chunk) ==
    IF w.voiceEnabledRef /\ w.playerRef
    THEN LET w1 == QueueChunk(w, chunk)
         IN IF ~cl.playing THEN [w1 EXCEPT !.isPlaying = TRUE] ELSE w1
    ELSE w

\* case 'error', lines 205-208.
onErrorEvent(w, cl) == Callback(w, "onError", cl.conv)

\* A sendMessage that sends the frame and then stops the audio.
sendMessageThenStop(w) ==
    IF ~IsOpen(w) THEN Callback(w, "onError", "Not connected")
    ELSE LET w1 == SocketSend(w, w.wsRef, "message")
         IN IF w1.playerRef
            THEN [PlayerStop(w1) EXCEPT !.isPlaying = FALSE]
            ELSE w1

\* A sendMessage that stops the audio before it looks at the socket.
sendMessageStoppingFirst(w) ==
    LET w1 == IF w.playerRef
              THEN [PlayerStop(w) EXCEPT !.isPlaying = FALSE]
              ELSE w
    IN IF ~IsOpen(w1) THEN Callback(w1, "onError", "Not connected")
       ELSE SocketSend(w1, w1.wsRef, "message")

\* sendMessage(content), lines 255-273.
sendMessage(w) ==
    IF ~IsOpen(w) THEN Callback(w, "onError", "Not connected")
    ELSE LET w1 == IF w.playerRef
                   THEN [PlayerStop(w) EXCEPT !.isPlaying = FALSE]
                   ELSE w
         IN SocketSend(w1, w1.wsRef, "message")

\* A stopAudio that stops the player and tells the server nothing.
stopAudioLocalOnly(w) ==
    IF w.playerRef THEN [PlayerStop(w) EXCEPT !.isPlaying = FALSE] ELSE w

\* stopAudio(), lines 275-286.
stopAudio(w) ==
    LET w1 == IF w.playerRef
              THEN [PlayerStop(w) EXCEPT !.isPlaying = FALSE]
              ELSE w
    IN IF IsOpen(w1) THEN SocketSend(w1, w1.wsRef, "stop_audio") ELSE w1

\* reconnect(), lines 288-291.
reconnect(w, cl) ==
    connect([w EXCEPT !.reconnectAttemptRef = 0, !.hist.fired = 0], cl)

\* The voiceEnabled effect, lines 57-65.
voiceEffect(w, enabled) ==
    LET w1 == [w EXCEPT !.voiceEnabledRef = enabled]
    IN IF ~enabled /\ w1.playerRef
       THEN [PlayerStop(w1) EXCEPT !.isPlaying = FALSE]
       ELSE w1

\* The mount effect (lines 294-300) and the conversationId effect (lines
\* 303-306), which both depend on connect and so both run whenever connect
\* is a new function.
connectEffects(w, cl) ==
    LET w1 == connect(w, cl)
    IN connect([w1 EXCEPT !.reconnectAttemptRef = 0, !.hist.fired = 0], cl)

-----------------------------------------------------------------------------
(* The hook's state machine *)

DepsNow == [conv |-> conversationId, playing |-> isPlaying, voice |-> voiceEnabled]
NoDeps == [conv |-> 0, playing |-> FALSE, voice |-> FALSE]

\* The closure of the callbacks of the last committed render.
Rendered == [conv |-> deps.conv, playing |-> deps.playing]

\* A user's event finds the component mounted and its first effects run
\* (React flushes the effects of a committed render before it handles one).
Flushed == mounted /\ deps # NoDeps

\* The limits that keep the model finite.
Within(w, maxAttempt) ==
    /\ BagSize(w.tokenFetches) <= MaxFetch
    /\ BagSize(w.leakedTimers) <= MaxLeaked
    /\ w.reconnectAttemptRef <= maxAttempt
    /\ w.cancelledSources <= MaxCancelled
    /\ Len(w.player.scheduledSources) <= MaxChunks
    /\ Len(w.hist.timeline) <= MaxTimeline

Do(w, name, s, code, maxAttempt) ==
    /\ Within(w, maxAttempt)
    /\ Set([w EXCEPT !.last.op = name, !.last.sock = s, !.last.code = code,
                     !.last.conv = IF s = 0 THEN 0 ELSE sockets[s].closure.conv])

Props == <<mounted, conversationId, voiceEnabled, deps>>

HookInit(voice) ==
    /\ mounted = TRUE
    /\ conversationId = 1
    /\ voiceEnabled = voice
    /\ deps = NoDeps
    /\ isConnected = FALSE /\ isConnecting = FALSE /\ isPlaying = FALSE
    /\ wsRef = 0 /\ playerRef = FALSE
    /\ reconnectAttemptRef = 0
    /\ reconnectTimeoutRef = NoClosure
    /\ heartbeatIntervalRef = FALSE /\ heartbeatTimeoutRef = FALSE
    /\ voiceEnabledRef = voice
    /\ sockets = [s \in SockIds |-> NoSocket]
    /\ leakedTimers = EmptyBag
    /\ tokenFetches = EmptyBag
    /\ player = NoPlayer /\ cancelledSources = 0 /\ clock = 0
    /\ last = NoOp
    /\ hist = NoHist
    /\ page = NoPage

\* A render was committed with new dependency values: React runs the
\* cleanup of the mount effect, then the effects in the order of the source.
RunEffects(maxAttempt) ==
    /\ mounted /\ deps # DepsNow
    /\ LET first == deps = NoDeps
           connectChanged == first \/ deps.conv # conversationId \/ deps.playing # isPlaying
           voiceChanged == first \/ deps.voice # voiceEnabled
           cl == [conv |-> conversationId, playing |-> isPlaying]
           w1 == IF connectChanged /\ ~first THEN cleanup(Cur) ELSE Cur
           w2 == IF voiceChanged THEN voiceEffect(w1, voiceEnabled) ELSE w1
           w3 == IF connectChanged THEN connectEffects(w2, cl) ELSE w2
       IN Do(w3, "effects", 0, 0, maxAttempt)
    /\ deps' = DepsNow
    /\ UNCHANGED <<mounted, conversationId, voiceEnabled>>

\* The page is given another conversation; conversations are visited in
\* increasing order, so NConv bounds the number of switches.
ChangeConversation ==
    /\ Flushed
    /\ \E c \in Convs : c > conversationId /\ conversationId' = c
    /\ Set([Cur EXCEPT !.last.op = "navigate"])
    /\ UNCHANGED <<mounted, voiceEnabled, deps>>

ToggleVoice ==
    /\ Flushed
    /\ voiceEnabled' = ~voiceEnabled
    /\ Set([Cur EXCEPT !.last.op = "toggleVoice"])
    /\ UNCHANGED <<mounted, conversationId, deps>>

\* Unmount: the cleanup of the mount effect, lines 297-299.
Unmount ==
    /\ mounted
    /\ mounted' = FALSE
    /\ Do(cleanup(Cur), "unmount", 0, 0, MaxBackoff)
    /\ UNCHANGED <<conversationId, voiceEnabled, deps>>

Reconnect(maxAttempt) ==
    /\ Flushed
    /\ Do(reconnect(Cur, Rendered), "reconnect", 0, 0, maxAttempt)
    /\ UNCHANGED Props

\* The user sends a message; at most maxTurns messages reach the server.
SendMessageWithin(maxTurns) ==
    /\ Flushed
    /\ LET w == sendMessage(Cur)
       IN w.hist.turns <= maxTurns /\ Do(w, "sendMessage", wsRef, 0, MaxBackoff)
    /\ UNCHANGED Props

SendMessage == SendMessageWithin(MaxTurns)

StopAudio ==
    /\ Flushed
    /\ Do(stopAudio(Cur), "stopAudio", wsRef, 0, MaxBackoff)
    /\ UNCHANGED Props

\* getToken() resolves with a token: connect() goes on to open a socket.
TokenResolved ==
    /\ \E cl \in Closures :
        /\ tokenFetches[cl] > 0
        /\ \E s \in SockIds :
            /\ sockets[s].readyState = "NONE"
            /\ \A r \in SockIds : sockets[r].readyState = "NONE" => s <= r
            /\ Do(connectResume(Cur, cl, s), "connectResume", s, 0, MaxBackoff)
    /\ UNCHANGED Props

\* getToken() rejects or resolves with null.
TokenFailed ==
    /\ \E cl \in Closures :
        /\ tokenFetches[cl] > 0
        /\ Do(connectFail(Cur, cl), "connectFail", 0, 0, MaxBackoff)
    /\ UNCHANGED Props

SocketOpens ==
    /\ \E s \in SockIds :
        /\ sockets[s].readyState = "CONNECTING"
        /\ Do(onopen([Cur EXCEPT !.sockets[s].readyState = "OPEN"]), "onopen", s, 0, MaxBackoff)
    /\ UNCHANGED Props

\* The close event of a socket: a failed handshake gives 1006, an open
\* socket closes with the code the server or the network gives, a socket
\* the client closed gives a local code.
CloseCodes(s) ==
    CASE sockets[s].readyState = "CONNECTING" -> LostCloseCodes
      [] sockets[s].readyState = "OPEN" -> RemoteCloseCodes
      [] sockets[s].readyState = "CLOSING" -> LocalCloseCodes
      [] OTHER -> {}

SocketCloses ==
    /\ \E s \in SockIds : \E code \in CloseCodes(s) :
        Do(onclose([Cur EXCEPT !.sockets[s].readyState = "CLOSED"], sockets[s].closure, code),
           "onclose", s, code, MaxBackoff)
    /\ UNCHANGED Props

ReconnectTimerFires(maxAttempt) ==
    /\ reconnectTimeoutRef # NoClosure
    /\ Do(reconnectTimer([Cur EXCEPT !.reconnectTimeoutRef = NoClosure], reconnectTimeoutRef),
          "reconnectTimer", 0, 0, maxAttempt)
    /\ UNCHANGED Props

\* A reconnect timer that reconnectTimeoutRef no longer points to fires.
LeakedTimerFires(maxAttempt) ==
    /\ \E cl \in Closures :
        /\ leakedTimers[cl] > 0
        /\ Do(reconnectTimer([Cur EXCEPT !.leakedTimers[cl] = @ - 1], cl),
              "leakedTimer", 0, 0, maxAttempt)
    /\ UNCHANGED Props

\* HEARTBEAT_TIMEOUT (5 s) is shorter than HEARTBEAT_INTERVAL (30 s): a
\* pending heartbeat timeout fires before the interval ticks again.
HeartbeatTick ==
    /\ heartbeatIntervalRef /\ ~heartbeatTimeoutRef
    /\ Do(heartbeatTick(Cur), "heartbeatTick", wsRef, 0, MaxBackoff)
    /\ UNCHANGED Props

HeartbeatTimeoutFires ==
    /\ heartbeatTimeoutRef
    /\ Do(heartbeatTimeout(Cur), "heartbeatTimeout", wsRef, 0, MaxBackoff)
    /\ UNCHANGED Props

\* A socket delivers messages while it is open and while it is closing.
Receiving(s) == sockets[s].readyState \in {"OPEN", "CLOSING"}

PongArrives ==
    /\ \E s \in SockIds :
        /\ Receiving(s) /\ sockets[s].pinged
        /\ Do(onPong([Cur EXCEPT !.sockets[s].pinged = FALSE]), "pong", s, 0, MaxBackoff)
    /\ UNCHANGED Props

UserMessageArrives ==
    /\ \E s \in SockIds :
        /\ Receiving(s) /\ sockets[s].phase = "user"
        /\ Do(onUserMessageEvent([Cur EXCEPT !.sockets[s].phase = "assistant"], sockets[s].closure),
              "user_message", s, 0, MaxBackoff)
    /\ UNCHANGED Props

\* The reply; the server will stream k audio chunks after it.
AssistantMessageArrives(maxChunks) ==
    /\ \E s \in SockIds : \E k \in 0..maxChunks :
        /\ Receiving(s) /\ sockets[s].phase = "assistant"
        /\ Do(onAssistantMessageEvent(
                 [Cur EXCEPT !.sockets[s].phase = IF k = 0 THEN "idle" ELSE "audio",
                             !.sockets[s].chunksLeft = k],
                 sockets[s].closure),
              "assistant_message", s, 0, MaxBackoff)
    /\ UNCHANGED Props

HookDurations == {20}

AudioChunkArrives ==
    /\ \E s \in SockIds : \E d \in HookDurations :
        /\ Receiving(s) /\ sockets[s].phase = "audio"
        /\ Do(onAudioChunkEvent(
                 [Cur EXCEPT !.sockets[s].chunksLeft = @ - 1,
                             !.sockets[s].phase = IF sockets[s].chunksLeft = 1 THEN "idle" ELSE @],
                 sockets[s].closure, Encoded(d)),
              "audio_chunk", s, 0, MaxBackoff)
    /\ UNCHANGED Props

\* The server reports that the turn failed.
ErrorArrives ==
    /\ \E s \in SockIds :
        /\ Receiving(s) /\ sockets[s].phase \in {"user", "assistant"}
        /\ Do(onErrorEvent([Cur EXCEPT !.sockets[s].phase = "idle"], sockets[s].closure),
              "error", s, 0, MaxBackoff)
    /\ UNCHANGED Props

\* The earliest scheduled source plays to its end.
SourceEnds ==
    /\ playerRef /\ player.scheduledSources # <<>>
    /\ Do(SourceEnded(Cur, 1), "ended", 0, 0, MaxBackoff)
    /\ UNCHANGED Props

\* The 'ended' event of a source that stop() had cancelled.
CancelledSourceEnds ==
    /\ cancelledSources > 0
    /\ Do(CancelledSourceEnded(Cur), "endedCancelled", 0, 0, MaxBackoff)
    /\ UNCHANGED Props

\* The connection's life cycle: connect on mount, reconnect by hand and by
\* backoff timer, token fetches, socket events.
CoreNext(maxAttempt) ==
    \/ RunEffects(maxAttempt)
    \/ Reconnect(maxAttempt)
    \/ TokenResolved
    \/ TokenFailed
    \/ SocketOpens
    \/ SocketCloses
    \/ ReconnectTimerFires(maxAttempt)
    \/ LeakedTimerFires(maxAttempt)

\* ... with a change of conversation and the messages of a turn.
SwitchNext ==
    \/ RunEffects(MaxAttempt)
    \/ TokenResolved
    \/ SocketOpens
    \/ SocketCloses
    \/ ReconnectTimerFires(MaxAttempt)
    \/ LeakedTimerFires(MaxAttempt)
    \/ ChangeConversation
    \/ SendMessage
    \/ UserMessageArrives
    \/ AssistantMessageArrives(0)
    \/ ErrorArrives

Init == HookInit(FALSE)
Next ==
    \/ CoreNext(MaxBackoff)
    \/ Unmount
    \/ HeartbeatTick
    \/ HeartbeatTimeoutFires
    \/ PongArrives
Spec == Init /\ [][Next]_vars

SpecSwitch == Init /\ [][SwitchNext]_vars

\* The hook with voice output: one conversation, the turns of a chat and
\* the audio player.
AudioNext ==
    \/ RunEffects(MaxAttempt)
    \/ ToggleVoice
    \/ SendMessage
    \/ StopAudio
    \/ TokenResolved
    \/ SocketOpens
    \/ SocketCloses
    \/ ReconnectTimerFires(MaxAttempt)
    \/ LeakedTimerFires(MaxAttempt)
    \/ UserMessageArrives
    \/ AssistantMessageArrives(MaxChunks)
    \/ AudioChunkArrives
    \/ SourceEnds
    \/ CancelledSourceEnds

SpecAudio == HookInit(TRUE) /\ [][AudioNext]_vars

\* Successive turns of a voice chat: messages, replies and their audio, on
\* connections that are closed only by the hook or lost.
TurnsNext ==
    \/ RunEffects(MaxAttempt)
    \/ TokenResolved
    \/ SocketOpens
    \/ SocketCloses
    \/ SendMessageWithin(MaxVoiceTurns)
    \/ UserMessageArrives
    \/ AssistantMessageArrives(1)
    \/ AudioChunkArrives
    \/ SourceEnds
    \/ CancelledSourceEnds

SpecTurns == HookInit(TRUE) /\ [][TurnsNext]_vars

\* Sending at any moment of a connection's life: while it is being opened,
\* open, closing after a heartbeat timeout, closed or absent, with the audio
\* of an earlier reply playing or not.
SendNext ==
    \/ RunEffects(MaxAttempt)
    \/ TokenResolved
    \/ SocketOpens
    \/ SocketCloses
    \/ HeartbeatTick
    \/ HeartbeatTimeoutFires
    \/ SendMessage
    \/ UserMessageArrives
    \/ AssistantMessageArrives(1)
    \/ AudioChunkArrives

SpecSend == HookInit(TRUE) /\ [][SendNext]_vars

-----------------------------------------------------------------------------
(* The PCMAudioPlayer alone, on an output clock that advances *)

Durations == {20, 30}
ClockSteps == {10, 20}

PlayerAloneInit ==
    /\ mounted = FALSE /\ conversationId = 1 /\ voiceEnabled = TRUE /\ deps = NoDeps
    /\ isConnected = FALSE /\ isConnecting = FALSE /\ isPlaying = FALSE
    /\ wsRef = 0 /\ playerRef = TRUE
    /\ reconnectAttemptRef = 0
    /\ reconnectTimeoutRef = NoClosure
    /\ heartbeatIntervalRef = FALSE /\ heartbeatTimeoutRef = FALSE
    /\ voiceEnabledRef = TRUE
    /\ sockets = [s \in SockIds |-> NoSocket]
    /\ leakedTimers = EmptyBag
    /\ tokenFetches = EmptyBag
    /\ player = NoPlayer /\ cancelledSources = 0 /\ clock = 0
    /\ last = NoOp
    /\ hist = NoHist
    /\ page = NoPage

\* The output clock (audioContext.currentTime) advances.
ClockAdvances ==
    /\ \E dt \in ClockSteps :
        /\ clock + dt <= MaxClock
        /\ Do([Cur EXCEPT !.clock = @ + dt], "clock", 0, 0, MaxBackoff)
    /\ UNCHANGED Props

\* init() may be called at any time; with an AudioContext present it only
\* resumes it.
PlayerInits ==
    /\ Do(PlayerInit(Cur), "playerInit", 0, 0, MaxBackoff)
    /\ UNCHANGED Props

\* Chunks that decode to nothing: a string that is not base64, one of no
\* bytes, one of an odd number of bytes.
BadChunks == {[valid |-> FALSE, bytes |-> 0, seq |-> 0], [valid |-> TRUE, bytes |-> 0, seq |-> 0],
              [valid |-> TRUE, bytes |-> 961, seq |-> 0]}

Chunks == {Encoded(d) : d \in Durations} \cup BadChunks

\* queueChunk of any chunk.
PlayerQueues ==
    /\ \E chunk \in Chunks :
        Do(QueueChunk(Cur, chunk), "queueChunk", 0, 0, MaxBackoff)
    /\ UNCHANGED Props

PlayerStops ==
    /\ Do(PlayerStop(Cur), "stop", 0, 0, MaxBackoff)
    /\ UNCHANGED Props

PlayerResets ==
    /\ Do(PlayerReset(Cur), "reset", 0, 0, MaxBackoff)
    /\ UNCHANGED Props

\* The earliest scheduled source has played to its end.
SourceEndsOnTime ==
    /\ player.scheduledSources # <<>>
    /\ clock >= Head(player.scheduledSources).start + Head(player.scheduledSources).duration
    /\ Do(SourceEnded(Cur, 1), "ended", 0, 0, MaxBackoff)
    /\ UNCHANGED Props

PlayerNext ==
    \/ ClockAdvances
    \/ PlayerInits
    \/ PlayerQueues
    \/ PlayerStops
    \/ PlayerResets
    \/ SourceEndsOnTime
    \/ CancelledSourceEnds

SpecPlayer == PlayerAloneInit /\ [][PlayerNext]_vars

\* The player with every await of processQueue a step of its own: chunks
\* are received at any moment, numbered in the order of their receipt.
ChunkReceived ==
    /\ hist.received < MaxReceived
    /\ \E c \in {Encoded(d) : d \in Durations} \cup {[valid |-> FALSE, bytes |-> 0, seq |-> 0]} :
        Do(queueChunkStart(Cur, [c EXCEPT !.seq = hist.received + 1]),
           "queueChunk", 0, 0, MaxBackoff)
    /\ UNCHANGED Props

InitCompletes ==
    /\ player.awaiting.init > 0
    /\ Do(processQueueAfterInit(Cur), "afterInit", 0, 0, MaxBackoff)
    /\ UNCHANGED Props

PlayChunkCompletes ==
    /\ player.awaiting.play > 0
    /\ Do(processQueueAfterPlayChunk(Cur), "afterPlayChunk", 0, 0, MaxBackoff)
    /\ UNCHANGED Props

QueueNext ==
    \/ ClockAdvances
    \/ ChunkReceived
    \/ InitCompletes
    \/ PlayChunkCompletes
    \/ SourceEndsOnTime
    \/ PlayerStops

SpecQueue == PlayerAloneInit /\ [][QueueNext]_vars

\* An utterance played to its end: chunks arrive until LastArrival, nothing
\* stops the player, the clock goes on until every source scheduled has
\* ended, and the browser delivers the 'ended' event of a source that has
\* played.
MaxDuration == CHOOSE d \in Durations : \A e \in Durations : e <= d

\* A time by which every source scheduled up to LastArrival has ended.
DrainClock == LastArrival + SAFETY_MARGIN + MaxTimeline * MaxDuration + 20

ClockAdvancesTo(cap) ==
    /\ \E dt \in ClockSteps :
        /\ clock + dt <= cap
        /\ Do([Cur EXCEPT !.clock = @ + dt], "clock", 0, 0, MaxBackoff)
    /\ UNCHANGED Props

ChunkQueuedEarly ==
    /\ clock <= LastArrival
    /\ PlayerQueues

DrainNext ==
    \/ ClockAdvancesTo(DrainClock)
    \/ ChunkQueuedEarly
    \/ SourceEndsOnTime

SpecDrain ==
    /\ PlayerAloneInit /\ [][DrainNext]_vars
    /\ WF_vars(ClockAdvancesTo(DrainClock))
    /\ WF_vars(SourceEndsOnTime)

-----------------------------------------------------------------------------
(* The chat page's message reconciler (home/chat/[conversationId]/page.tsx) *)
(* and the history snapshot (hooks/use-conversations.ts)                    *)

\* A message as the server gives it, in the history and on the socket.
\* Contents are sample strings; created_at is a time in ms.
MarkedContents == {"<memory_metadata>x</memory_metadata>", "MEMORY_METADATA x"}

\* content.includes('<memory_metadata>') ||
\* content.toLowerCase().includes('memory_metadata'), on the sample strings.
HasMemoryMarker(content) == content \in MarkedContents

\* The filter of historyToConversation, lines 34-44.
HistoryFilter(msg) ==
    IF msg.role = "system" \/ msg.message_type = "system_message" THEN FALSE
    ELSE IF msg.content # "" /\ HasMemoryMarker(msg.content) THEN FALSE
    ELSE TRUE

\* apiMessageToMessage, lines 14-22, of a message that has an id and a
\* created_at.
apiMessageToMessage(apiMsg) ==
    [id |-> apiMsg.id, role |-> apiMsg.role, content |-> apiMsg.content,
     createdAt |-> apiMsg.created_at]

Reverse(s) == [i \in 1..Len(s) |-> s[Len(s) + 1 - i]]

MapSeq(s) == [i \in 1..Len(s) |-> apiMessageToMessage(s[i])]

\* historyToConversation(...).messages: filter, convert, reverse.
historyToConversation(history) == Reverse(MapSeq(SelectSeq(history, HistoryFilter)))

\* parseMessage, use-chat-websocket.ts lines 318-327.
parseMessage(data) ==
    [id |-> data.id, role |-> data.role, content |-> data.content,
     createdAt |-> data.created_at]

\* Map.set(msg.id, msg) on a Map kept as the sequence of its values in
\* insertion order: a key that is present keeps its place.
MapSet(entries, msg) ==
    IF \E i \in 1..Len(entries) : entries[i].id = msg.id
    THEN [i \in 1..Len(entries) |-> IF entries[i].id = msg.id THEN msg ELSE entries[i]]
    ELSE Append(entries, msg)

RECURSIVE MapSetAll(_, _)
MapSetAll(entries, msgs) ==
    IF msgs = << >> THEN entries
    ELSE MapSetAll(MapSet(entries, Head(msgs)), Tail(msgs))

\* Array.prototype.sort with (a, b) => a.createdAt - b.createdAt: a stable
\* sort by createdAt.
InsertByCreatedAt(sorted, msg) ==
    LET k == Cardinality({i \in 1..Len(sorted) : sorted[i].createdAt <= msg.createdAt})
    IN SubSeq(sorted, 1, k) \o <<msg>> \o SubSeq(sorted, k + 1, Len(sorted))

RECURSIVE SortByCreatedAt(_)
SortByCreatedAt(msgs) ==
    IF msgs = << >> THEN << >>
    ELSE InsertByCreatedAt(SortByCreatedAt(SubSeq(msgs, 1, Len(msgs) - 1)), msgs[Len(msgs)])

\* A merge that keeps every message it is given.
allMessagesKeepingAll(initialMessages, localMessages) ==
    SortByCreatedAt(initialMessages \o localMessages)

\* allMessages, page.tsx lines 76-93.
allMessages(initialMessages, localMessages) ==
    SortByCreatedAt(MapSetAll(MapSetAll(<< >>, initialMessages), localMessages))

\* The identifiers of msgs appended to arrival, each once.
RECURSIVE Arrive(_, _)
Arrive(arrival, msgs) ==
    IF msgs = << >> THEN arrival
    ELSE Arrive(IF \E i \in 1..Len(arrival) : arrival[i] = Head(msgs).id
                THEN arrival ELSE Append(arrival, Head(msgs).id),
                Tail(msgs))

\* useConversation's refresh resolved: setConversation(historyToConversation(history)).
loadSnapshot(w, history) ==
    LET msgs == historyToConversation(history)
    IN [w EXCEPT !.page.initialMessages = msgs,
                 !.page.arrival = Arrive(@, msgs),
                 !.page.loads = @ + 1]

\* onUserMessage / onAssistantMessage of the page, lines 40-47, called by
\* ws.onmessage with parseMessage(data.message).
onLiveMessage(w, data) ==
    LET msg == parseMessage(data)
    IN [w EXCEPT !.page.localMessages = Append(@, msg),
                 !.page.arrival = Arrive(@, <<msg>>)]

\* The history of a conversation of k turns as the server returns it for
\* order=asc (lib/api.ts line 147): oldest first, every message with an id
\* of its own.
RECURSIVE ServerHistory(_)
ServerHistory(k) ==
    IF k = 0 THEN << >>
    ELSE ServerHistory(k - 1) \o
         << [id |-> 2 * k - 1, created_at |-> 2 * k - 1, role |-> "user",
             message_type |-> "user_message", content |-> "hi"],
            [id |-> 2 * k, created_at |-> 2 * k, role |-> "assistant",
             message_type |-> "assistant_message", content |-> "hello"] >>

\* The response of POST /api/chat for turn k: the assistant's message.
SendResponse(k) == ServerHistory(k)[2 * k]

\* refresh() up to its await of getConversationHistory, lines 178-190.
refreshStart(w) ==
    [w EXCEPT !.page.started = @ + 1,
              !.page.refreshes = @ \cup {[n |-> w.page.started + 1, served |-> FALSE,
                                          history |-> << >>]},
              !.page.latest = << >>]

\* The optimistic update of useConversation.sendMessage given the response,
\* lines 232-259: a user message and an assistant message, both converted
\* from the response.
optimisticAppend(messages, response, content) ==
    LET userMsg == apiMessageToMessage([response EXCEPT !.role = "user", !.content = content])
        assistantMsg == apiMessageToMessage(response)
    IN messages \o <<userMsg, assistantMsg>>

\* useConversation.sendMessage after apiClient.sendMessage resolved, lines
\* 229-266: the optimistic update, then a background refresh.
sendAcknowledged(w, response, content) ==
    refreshStart([w EXCEPT !.page.initialMessages = optimisticAppend(@, response, content)])

SeqsUpTo(S, n) == UNION {[1..k -> S] : k \in 0..n}

SnapshotLoaded(raws) ==
    /\ page.loads < MaxLoads
    /\ \E history \in SeqsUpTo(raws, MaxSnapshot) :
        Do(loadSnapshot(Cur, history), "snapshot", 0, 0, MaxBackoff)
    /\ UNCHANGED Props

LiveMessageArrives(raws) ==
    /\ Len(page.localMessages) < MaxLive
    /\ \E data \in raws :
        Do(onLiveMessage(Cur, data), "live", 0, 0, MaxBackoff)
    /\ UNCHANGED Props

\* The mount effect of useConversation, lines 211-218: the initial load.
ConversationMounts ==
    /\ page.started = 0
    /\ Do(refreshStart(Cur), "mountRefresh", 0, 0, MaxBackoff)
    /\ UNCHANGED Props

\* The server stores a turn and answers the POST; the hook appends and
\* refreshes.
MessageAcknowledged ==
    /\ page.started > 0 /\ page.server < MaxSends
    /\ Do(sendAcknowledged([Cur EXCEPT !.page.server = @ + 1],
                           SendResponse(page.server + 1), "hi"),
          "sendAcknowledged", 0, 0, MaxBackoff)
    /\ UNCHANGED Props

\* The server answers a refresh's GET with the history it has then.
HistoryFetched ==
    /\ \E r \in page.refreshes :
        /\ ~r.served
        /\ LET history == ServerHistory(page.server)
               served == [r EXCEPT !.served = TRUE, !.history = history]
           IN Do([Cur EXCEPT !.page.refreshes = (@ \ {r}) \cup {served},
                             !.page.latest = IF r.n = page.started
                                             THEN historyToConversation(history) ELSE @],
                 "historyFetched", 0, 0, MaxBackoff)
    /\ UNCHANGED Props

\* A refresh that has its history goes on to setConversation, lines 191-200.
RefreshCompletes ==
    /\ \E r \in page.refreshes :
        /\ r.served
        /\ Do(loadSnapshot([Cur EXCEPT !.page.refreshes = @ \ {r}], r.history),
              "refreshed", 0, 0, MaxBackoff)
    /\ UNCHANGED Props

ConversationNext ==
    \/ ConversationMounts
    \/ MessageAcknowledged
    \/ HistoryFetched
    \/ RefreshCompletes

SpecConversation == HookInit(FALSE) /\ [][ConversationNext]_vars

MsgIds == 1..NMsgIds
Times == 1..NTimes

\* Ordinary messages: the snapshot's version says "hi", the live one "hello".
SnapshotRaws == [id : MsgIds, created_at : Times, role : {"assistant"},
                 message_type : {"assistant_message"}, content : {"hi"}]
LiveRaws == [id : MsgIds, created_at : Times, role : {"assistant"},
             message_type : {"assistant_message"}, content : {"hello"}]

MergeNext ==
    \/ SnapshotLoaded(SnapshotRaws)
    \/ LiveMessageArrives(LiveRaws)

SpecMerge == HookInit(FALSE) /\ [][MergeNext]_vars

\* Messages of one timestamp: ordinary ones, and ones flagged as system or
\* carrying the memory marker.
FlaggedRaws == [id : 1..2, created_at : {1}, role : {"assistant", "system"},
                message_type : {"assistant_message", "system_message"},
                content : {"hi"} \cup MarkedContents]

FilterNext ==
    \/ SnapshotLoaded(FlaggedRaws)
    \/ LiveMessageArrives(FlaggedRaws)

SpecFilter == HookInit(FALSE) /\ [][FilterNext]_vars

-----------------------------------------------------------------------------
(* Properties *)

LiveSockets == {s \in SockIds : sockets[s].readyState \in {"CONNECTING", "OPEN"}}

\* Reconnect timers that will still fire.
PendingTimers == (IF reconnectTimeoutRef # NoClosure THEN 1 ELSE 0) + BagSize(leakedTimers)

\* The handler that just ran started a connection attempt (got as far as
\* getToken()).
StartedAttempt == \E i \in 1..Len(last.calls) : last.calls[i][1] = "getToken"

\* C1: at every moment at most one socket is connecting or open.
C1_SingleConnection == Cardinality(LiveSockets) <= 1

C3_TerminalCloseIsFinal ==
    (last.op = "onclose" /\ last.code \in NoRetryCodes)
        => (~isConnected /\ ~isConnecting /\ PendingTimers = 0)

\* C7: once the component is unmounted no reconnect timer and no heartbeat
\* timer is pending.
C7_TeardownIsTerminal ==
    ~mounted => (PendingTimers = 0 /\ ~heartbeatIntervalRef /\ ~heartbeatTimeoutRef)

\* C10: at most one reconnect timer is pending, and none is left pending by
\* a handler that started a connection attempt.
C10_SingleReconnectTimer ==
    /\ PendingTimers <= 1
    /\ StartedAttempt => PendingTimers = 0

\* The sources scheduled since the cursor was last reset, oldest first.
Timeline == hist.timeline

\* C4: every source starts at max(currentTime + 0.01 s, end of the source
\* scheduled before it), so it never starts before its predecessor ends, and
\* it starts exactly there when that end is at least 0.01 s away.
C4_GaplessSchedule ==
    \A n \in 1..Len(Timeline) :
        LET cur == Timeline[n]
            cursor == IF n = 1 THEN 0 ELSE Timeline[n - 1].end
        IN /\ cur.start = Max(cur.now + SAFETY_MARGIN, cursor)
           /\ cur.start >= cursor
           /\ cur.now + SAFETY_MARGIN <= cursor => cur.start = cursor
           /\ cur.end >= cur.start

\* Three sources, the second back to back with the first, the third after
\* an underrun.
C4_Witness ==
    /\ Len(Timeline) = 3
    /\ Timeline[2].now + SAFETY_MARGIN <= Timeline[1].end
    /\ Timeline[2].start = Timeline[1].end
    /\ Timeline[3].now + SAFETY_MARGIN > Timeline[2].end
    /\ Timeline[3].start > Timeline[2].end

\* C5: stopAudio() leaves an existing player stopped, sends exactly one
\* stop_audio frame on the current socket if that socket is open and nothing
\* otherwise, and leaves the connection as it was.
C5_StopAudio ==
    [][last'.op = "stopAudio" =>
        /\ playerRef' => player'.state = "stopped"
        /\ last'.sent = IF wsRef # 0 /\ sockets[wsRef].readyState = "OPEN"
                        THEN << <<"stop_audio", wsRef>> >>
                        ELSE << >>
        /\ UNCHANGED <<wsRef, sockets, isConnected, isConnecting, tokenFetches,
                       reconnectAttemptRef, reconnectTimeoutRef, leakedTimers,
                       heartbeatIntervalRef, heartbeatTimeoutRef, playerRef>>]_vars

\* stopAudio() ran while audio was scheduled and the socket was open.
C5_Witness ==
    /\ last.op = "stopAudio"
    /\ last.sent = << <<"stop_audio", wsRef>> >>
    /\ playerRef /\ player.state = "stopped"
    /\ cancelledSources > 0

\* C6: a chunk that arrives after stop() and before the next assistant
\* message or reset() is dropped: nothing is scheduled and nothing is queued.
C6_DroppedAfterStop ==
    (last.op \in {"audio_chunk", "queueChunk"} /\ hist.stopped)
        => (last.scheduled = << >> /\ player.pendingChunks = << >>)

\* The socket the hook holds is open.
CurrentSocketOpen == wsRef # 0 /\ sockets[wsRef].readyState = "OPEN"

\* C8: while the current socket is open the ping interval is armed; when the
\* heartbeat timeout fires the socket whose ping went unanswered is no longer
\* open; a pong leaves no heartbeat timeout pending.
C8_Heartbeat ==
    /\ CurrentSocketOpen => heartbeatIntervalRef
    /\ last.op = "heartbeatTimeout"
           => \A s \in SockIds : sockets[s].pinged => sockets[s].readyState # "OPEN"
    /\ last.op = "pong" => ~heartbeatTimeoutRef

\* C9: once the effects have run for a new conversationId, an event of a
\* socket opened for another conversation reaches no callback and no player,
\* and the close of such a socket schedules no reconnect.
C9_NoLeakAfterSwitch ==
    (last.sock # 0 /\ last.conv # deps.conv) =>
        /\ last.op \in {"user_message", "assistant_message", "audio_chunk", "error"}
               => (last.calls = << >> /\ last.scheduled = << >>)
        /\ last.op = "onclose" => last.delay = 0

\* C11: stop() leaves the player 'stopped' with no scheduled source, an
\* empty pending queue and the cursor at 0, and a stopped player stays
\* stopped in every step other than reset() and init().
C11_StopIsSticky ==
    [][/\ last'.op = "stop" =>
            /\ player'.state = "stopped"
            /\ player'.scheduledSources = << >>
            /\ player'.pendingChunks = << >>
            /\ player'.nextPlayTime = 0
       /\ (player.state = "stopped" /\ last'.op \notin {"reset", "playerInit"})
            => player'.state = "stopped"]_vars

\* C12: from 'stopped', reset() and init() both leave the player 'idle'.
C12_LeavingStopped ==
    [][(player.state = "stopped" /\ last'.op \in {"reset", "playerInit"})
            => player'.state = "idle"]_vars

\* C13: with voice enabled, a chunk that arrives on the current, open
\* socket after the assistant_message of its turn, with no stop since that
\* message, is scheduled for playback.
C13_TurnAudioIsScheduled ==
    (/\ last.op = "audio_chunk"
     /\ voiceEnabledRef /\ ~hist.stopped
     /\ last.sock = wsRef /\ CurrentSocketOpen)
        => last.scheduled # << >>

\* C14: sendMessage, stopAudio and unmount, run while the current socket
\* is open, each send a stop_audio frame on it and leave no source
\* scheduled.
C14_EveryStopDoesBoth ==
    [][(last'.op \in {"sendMessage", "stopAudio", "unmount"} /\ CurrentSocketOpen)
        => /\ \E i \in 1..Len(last'.sent) : last'.sent[i] = <<"stop_audio", wsRef>>
           /\ player'.scheduledSources = << >>]_vars

\* C15: stopAudio() leaves the connection as it was and makes no effect run
\* pending; when voiceEnabled goes off while isPlaying is true and the
\* current socket is open, the effect run that follows keeps that socket
\* open, keeps isConnected and starts no connection attempt.
C15_StopKeepsConnection ==
    [][/\ last'.op = "stopAudio" =>
            /\ UNCHANGED <<wsRef, sockets, isConnected, tokenFetches,
                           reconnectTimeoutRef, leakedTimers>>
            /\ deps = DepsNow => deps' = DepsNow'
       /\ (/\ last'.op = "effects"
           /\ deps # NoDeps /\ deps.conv = conversationId
           /\ last.op = "toggleVoice" /\ deps.voice /\ ~voiceEnabled
           /\ isPlaying /\ CurrentSocketOpen)
            => /\ wsRef' = wsRef
               /\ sockets'[wsRef].readyState = "OPEN"
               /\ isConnected' = isConnected
               /\ ~StartedAttempt']_vars

\* The message sequence the page displays.
Displayed == allMessages(page.initialMessages, page.localMessages)

IdsOf(msgs) == {msgs[i].id : i \in 1..Len(msgs)}

\* The last message of msgs with identifier id.
LastWithId(msgs, id) ==
    msgs[CHOOSE i \in 1..Len(msgs) :
            /\ msgs[i].id = id
            /\ \A j \in (i + 1)..Len(msgs) : msgs[j].id # id]

\* C16: every identifier is displayed at most once, in its live version if
\* it has one and in its snapshot version otherwise; a live message that is
\* added a second time changes nothing, and neither does one that repeats
\* the last live message.
C16_IdempotentMerge ==
    /\ \A i, j \in 1..Len(Displayed) : Displayed[i].id = Displayed[j].id => i = j
    /\ IdsOf(Displayed) = IdsOf(page.initialMessages) \cup IdsOf(page.localMessages)
    /\ \A i \in 1..Len(Displayed) :
          Displayed[i] = IF Displayed[i].id \in IdsOf(page.localMessages)
                         THEN LastWithId(page.localMessages, Displayed[i].id)
                         ELSE LastWithId(page.initialMessages, Displayed[i].id)
    /\ \A data \in LiveRaws :
          LET once == Append(page.localMessages, parseMessage(data))
              twice == Append(once, parseMessage(data))
          IN allMessages(page.initialMessages, twice) = allMessages(page.initialMessages, once)
    /\ (page.localMessages # << >>)
          => allMessages(page.initialMessages,
                         Append(page.localMessages, page.localMessages[Len(page.localMessages)]))
               = Displayed

\* A message is in the snapshot and arrived live twice.
C16_Witness ==
    /\ Len(page.localMessages) = 2
    /\ page.localMessages[1] = page.localMessages[2]
    /\ page.localMessages[1].id \in IdsOf(page.initialMessages)
    /\ Len(page.initialMessages) = 2
    /\ Len(Displayed) = 2

\* The place of an identifier in the order of first arrival.
ArrivalIndex(id) == CHOOSE i \in 1..Len(page.arrival) : page.arrival[i] = id

\* C17: the displayed sequence is ordered by createdAt, and messages with
\* equal createdAt are displayed in the order they first arrived.
C17_OrderedByTimeThenArrival ==
    \A i, j \in 1..Len(Displayed) :
        i < j => /\ Displayed[i].createdAt <= Displayed[j].createdAt
                 /\ Displayed[i].createdAt = Displayed[j].createdAt
                        => ArrivalIndex(Displayed[i].id) < ArrivalIndex(Displayed[j].id)

\* C18: no displayed message has role 'system' or carries the memory marker.
C18_FilteredNeverDisplayed ==
    \A i \in 1..Len(Displayed) :
        /\ Displayed[i].role # "system"
        /\ ~HasMemoryMarker(Displayed[i].content)

\* C19: a chunk that is not base64, that decodes to no bytes or that decodes
\* to an odd number of bytes is dropped by queueChunk: nothing is scheduled,
\* no callback is made, the state, the playback cursor and the scheduled
\* sources are unchanged and the queue is left empty; a well-formed chunk
\* queued to a player that is not stopped is scheduled and the player is
\* playing, whatever was queued before.
C19_UndecodableChunkIsDropped ==
    [][/\ (last'.op = "queueChunk" /\ last'.chunk \in BadChunks)
          => /\ last'.scheduled = <<>> /\ last'.calls = <<>>
             /\ player'.state = player.state
             /\ player'.nextPlayTime = player.nextPlayTime
             /\ player'.scheduledSources = player.scheduledSources
             /\ player'.pendingChunks = <<>> /\ ~player'.isProcessing
       /\ (last'.op = "queueChunk" /\ last'.chunk \notin BadChunks /\ player.state # "stopped")
          => /\ Len(last'.scheduled) = 1
             /\ player'.scheduledSources = Append(player.scheduledSources, last'.scheduled[1])
             /\ player'.state = "playing"]_vars

\* A well-formed chunk has just been scheduled after an undecodable one
\* was dropped.
C19_Witness ==
    /\ last.op = "queueChunk" /\ last.chunk \notin BadChunks
    /\ hist.undecoded /\ Len(last.scheduled) = 1 /\ player.state = "playing"

\* C20: sendMessage with no open socket (none, connecting, closing or
\* closed) calls onError('Not connected') once and nothing else, sends no
\* frame and leaves the player, the connection and its timers and the
\* reconnect counter as they were.
C20_SendWhileDisconnected ==
    [][(last'.op = "sendMessage" /\ ~CurrentSocketOpen)
          => /\ last'.calls = << <<"onError", "Not connected">> >>
             /\ last'.sent = <<>>
             /\ UNCHANGED <<player, playerRef, isPlaying, cancelledSources,
                            wsRef, sockets, isConnected, isConnecting,
                            reconnectAttemptRef, reconnectTimeoutRef,
                            heartbeatIntervalRef, heartbeatTimeoutRef,
                            tokenFetches, leakedTimers>>]_vars

\* sendMessage was refused on a socket that is closing while the audio of
\* a reply plays.
C20_Witness ==
    /\ last.op = "sendMessage"
    /\ last.calls = << <<"onError", "Not connected">> >>
    /\ wsRef # 0 /\ sockets[wsRef].readyState = "CLOSING"
    /\ playerRef /\ player.state = "playing"

\* The other three cases of C20: no socket, a connecting one, a closed one.
SendRefusedWithout == last.op = "sendMessage" /\ last.calls # <<>> /\ wsRef = 0
SendRefusedConnecting ==
    last.op = "sendMessage" /\ last.calls # <<>> /\ wsRef # 0 /\ sockets[wsRef].readyState = "CONNECTING"
SendRefusedClosed ==
    last.op = "sendMessage" /\ last.calls # <<>> /\ wsRef # 0 /\ sockets[wsRef].readyState = "CLOSED"

\* The number of times name is called in calls.
RECURSIVE CallsOf(_, _)
CallsOf(calls, name) ==
    IF calls = <<>> THEN 0
    ELSE (IF Head(calls)[1] = name THEN 1 ELSE 0) + CallsOf(Tail(calls), name)

SocketCreated(s) == sockets[s].readyState = "NONE" /\ sockets'[s].readyState # "NONE"

\* C21: a socket is created only by the continuation of a connect() whose
\* getToken() is pending, which that creation uses up, so that a token opens
\* one socket at most; every getToken() call is made by a connect() that has
\* discarded the socket it found (wsRef cleared, that socket neither
\* connecting nor open), and each call starts one fetch.
C21_FreshTokenPerSocket ==
    [][/\ \A s \in SockIds : SocketCreated(s)
            => /\ last'.op = "connectResume" /\ last'.sock = s
               /\ sockets'[s].readyState = "CONNECTING"
               /\ \A r \in SockIds \ {s} : ~SocketCreated(r)
               /\ LET cl == sockets'[s].closure
                  IN /\ tokenFetches[cl] > 0
                     /\ tokenFetches' = [tokenFetches EXCEPT ![cl] = @ - 1]
       /\ last'.op \notin {"connectResume", "connectFail"}
            => BagSize(tokenFetches') = BagSize(tokenFetches) + CallsOf(last'.calls, "getToken")
       /\ CallsOf(last'.calls, "getToken") > 0
            => /\ wsRef' = 0
               /\ wsRef # 0 => sockets'[wsRef].readyState \notin {"CONNECTING", "OPEN"}]_vars

\* A socket has been created by the connect() of a backoff timer.
C21_Witness ==
    /\ last.op = "connectResume" /\ hist.fired > 0
    /\ wsRef = last.sock /\ sockets[wsRef].readyState = "CONNECTING"

\* C22: the handler of a close with a terminal code (4001, 4003, 4004)
\* calls onError.
C22_TerminalCloseCallsOnError ==
    (last.op = "onclose" /\ last.code \in {CLOSE_AUTH, CLOSE_FORBIDDEN, CLOSE_NOT_FOUND})
        => CallsOf(last.calls, "onError") > 0

\* C23: when getToken() rejects or gives no token, connect() creates no
\* socket, calls onError once, schedules no reconnect and leaves the hook
\* disconnected: isConnecting and isConnected are both false.
C23_TokenFailureIsTerminal ==
    [][last'.op = "connectFail"
          => /\ \A s \in SockIds : ~SocketCreated(s)
             /\ CallsOf(last'.calls, "onError") = 1
             /\ CallsOf(last'.calls, "getToken") = 0
             /\ reconnectTimeoutRef' = reconnectTimeoutRef
             /\ leakedTimers' = leakedTimers
             /\ ~isConnecting' /\ ~isConnected']_vars

\* C24: sendMessage on an open connection sends one 'message' frame on the
\* current socket and keeps that socket; when there is a player it is
\* stopped before the frame is sent, isPlaying is false, and every source
\* that was scheduled and every pending chunk is cancelled.
C24_SendStopsThenSends ==
    [][(last'.op = "sendMessage" /\ CurrentSocketOpen)
          => /\ last'.sent = << <<"message", wsRef>> >>
             /\ wsRef' = wsRef /\ sockets'[wsRef].readyState = "OPEN"
             /\ playerRef
                  => /\ last'.sentWhile = <<"stopped">>
                     /\ player'.state = "stopped" /\ ~isPlaying'
                     /\ player'.scheduledSources = <<>>
                     /\ player'.pendingChunks = <<>>
                     /\ cancelledSources' = cancelledSources + Len(player.scheduledSources)]_vars

\* A message was sent while audio of the previous reply was scheduled.
C24_Witness ==
    /\ last.op = "sendMessage" /\ last.sent = << <<"message", wsRef>> >>
    /\ last.sentWhile = <<"stopped">> /\ cancelledSources > 0
    /\ CallsOf(last.calls, "onStateChange") = 1

\* C25: the chunks on the output timeline are in the order they were
\* received, each starting later than the one before it, however the
\* awaits of the processQueue invocations in flight interleave.
C25_ChunkOrderPreserved ==
    /\ Len(hist.order) = Len(hist.timeline)
    /\ \A i, j \in 1..Len(hist.order) :
          i < j => /\ hist.order[i] < hist.order[j]
                   /\ hist.timeline[i].start < hist.timeline[j].start

\* Two chunks are on the timeline while two processQueue invocations are
\* suspended, one of them still at the lazy init().
C25_Witness ==
    /\ Len(hist.order) >= 2
    /\ player.awaiting.init > 0 /\ player.awaiting.play > 0

\* C26: the player is never idle with a source scheduled or a chunk
\* pending; scheduling a buffer on a player that is not playing makes it
\* 'playing' and reports it; with no stop, a player that is playing
\* eventually is idle with nothing scheduled, and its becoming idle is
\* reported by onStateChange('idle').
C26_PlayingToIdle ==
    /\ [](player.state = "idle"
            => player.scheduledSources = <<>> /\ player.pendingChunks = <<>>)
    /\ [][/\ (last'.scheduled # <<>> /\ player.state # "playing")
              => /\ player'.state = "playing"
                 /\ last'.calls = << <<"onStateChange", "playing">> >>
          /\ (player.state = "playing" /\ player'.state = "idle")
              => /\ last'.op = "ended"
                 /\ last'.calls = << <<"onStateChange", "idle">> >>]_vars
    /\ (player.state = "playing") ~> (player.state = "idle" /\ ~isPlaying)

\* The last of three sources has ended and the player went idle.
C26_Witness ==
    /\ last.op = "ended" /\ last.calls = << <<"onStateChange", "idle">> >>
    /\ Len(hist.timeline) = MaxTimeline /\ player.state = "idle"

\* C27: when no refresh is in flight the conversation displayed is what
\* the refresh started last fetched, and it has the reply of every turn
\* that was acknowledged.
C27_LatestRefreshWins ==
    (page.started > 0 /\ page.refreshes = {})
        => /\ page.initialMessages = page.latest
           /\ \A k \in 1..page.server :
                 \E i \in 1..Len(page.initialMessages) :
                     page.initialMessages[i].id = SendResponse(k).id

\* C30: no two messages of the list useConversation exposes have the same
\* identifier.
C30_UniqueIdentifiers ==
    \A i, j \in 1..Len(page.initialMessages) :
        i # j => page.initialMessages[i].id # page.initialMessages[j].id

\* C28: isConnected is true exactly when the current socket is open;
\* isConnected and isConnecting are never both true; while isConnected is
\* true the heartbeat interval is armed.
C28_ConnectedMatchesSocket ==
    /\ isConnected <=> CurrentSocketOpen
    /\ ~(isConnected /\ isConnecting)
    /\ isConnected => heartbeatIntervalRef

\* C29: when isPlaying is true there is a player and it is playing; the
\* state a player passed to onStateChange last is the state it is in (a
\* player that has reported nothing is idle).
C29_PlayingMatchesPlayer ==
    /\ isPlaying => (playerRef /\ player.state = "playing")
    /\ playerRef => \/ hist.reported = player.state
                    \/ hist.reported = "none" /\ player.state = "idle"

=============================================================================
